---- MODULE Spec2Model ----
(***************************************************************************)
(* Model of the probing and scheduling engine of connection-pulse          *)
(* (src-tauri/src/lib.rs): the RwLock-guarded target registry, the         *)
(* get_targets / set_targets commands, the probe executors and the         *)
(* periodic probe loop started by start_probe_loop.                        *)
(***************************************************************************)
EXTENDS Naturals, Sequences, FiniteSets

\* ------------------------------------------------------------------ bounds

\* Longest target list a set_targets call stores.
MaxTargets == 2

\* Most addresses a resolution returns.
MaxAddrs == 2

\* Most lines the ping utility prints.
MaxLines == 2

\* Most period deadlines of the ticker that pass without being consumed.
MaxPassed == 2

\* ------------------------------------------------------------------ data

\* Target records (struct Target).
T1 == [id |-> "a", name |-> "web", host |-> "h1", port |-> 80, probe_type |-> "tcp"]
T2 == [id |-> "b", name |-> "gw", host |-> "h2", port |-> 0, probe_type |-> "ping"]

TargetPool == {T1, T2}

RECURSIVE SeqsUpTo(_, _)
SeqsUpTo(S, n) ==
    IF n = 0 THEN {<<>>}
    ELSE LET shorter == SeqsUpTo(S, n - 1)
         IN  shorter \cup {Append(s, x) : s \in {t \in shorter : Len(t) = n - 1}, x \in S}

\* The values of Vec<Target> that callers pass to set_targets.
TargetLists == SeqsUpTo(TargetPool, MaxTargets)

\* Option<String>::None in ProbeResult.error.
NoError == "None"

\* struct ProbeResult, built field by field as the struct literals of the code.
ProbeResult(id, ok, latency_ms, error, timestamp) ==
    [id |-> id, ok |-> ok, latency_ms |-> latency_ms, error |-> error,
     timestamp |-> timestamp]

\* ------------------------------------------------------------------ environment of a probe

\* Socket addresses a resolution can return.
A1 == "10.0.0.1"
A2 == "10.0.0.2"

\* What one probe meets outside the program:
\*   clock     SystemTime::now() against UNIX_EPOCH: "ok" or "before_epoch"
\*   now       milliseconds since the epoch at the probe's start
\*   took      Instant::elapsed() in milliseconds where the result is built
\*   resolve   to_socket_addrs(): "ok" or "err";  addrs: the addresses it yields
\*   accepting the addresses a connect_timeout to which succeeds
\*   spawn     Command::output(): "ok" or "err";  exit: "success" or "failure"
\*   stdout    what the ping utility printed: its lines, each written as a
\*             lead-in, a time token, a number and a unit
Env(clock, now, took, resolve, addrs, accepting, spawn, exit, stdout) ==
    [clock |-> clock, now |-> now, took |-> took, resolve |-> resolve,
     addrs |-> addrs, accepting |-> accepting, spawn |-> spawn, exit |-> exit,
     stdout |-> stdout]

\* ------------------------------------------------------------------ output of the ping utility

\* One printed line: lead-in, time token (kind "eq", "lt" or "none" and its
\* characters), the number after it (its characters, whether they form a
\* number, and that number rounded to the nearest integer), and the unit.
Line(pre, kind, token, num, post) ==
    [pre |-> pre, kind |-> kind, token |-> token, num |-> num, post |-> post]

Number(text, numeric, rounded) == [text |-> text, numeric |-> numeric, rounded |-> rounded]

\* The characters of a printed line.
LineText(l) == l.pre \o l.token \o l.num.text \o l.post

\* String::from_utf8_lossy(&output.stdout): the characters of the whole
\* output, every line ended by a newline.
RECURSIVE from_utf8_lossy(_)
from_utf8_lossy(ls) ==
    IF ls = <<>> THEN <<>>
    ELSE LineText(Head(ls)) \o <<"\n">> \o from_utf8_lossy(Tail(ls))

\* ------------------------------------------------------------------ parse_ping_latency

\* Characters are one-character strings; a text is a sequence of them.
DigitChars == <<"0", "1", "2", "3", "4", "5", "6", "7", "8", "9">>

IsDigit(c) == \E k \in DOMAIN DigitChars : DigitChars[k] = c

DigitVal(c) == (CHOOSE k \in DOMAIN DigitChars : DigitChars[k] = c) - 1

\* char::to_lowercase on the letters that occur in the outputs.
LowerChar(c) ==
    CASE c = "T" -> "t"
      [] c = "I" -> "i"
      [] c = "M" -> "m"
      [] c = "E" -> "e"
      [] OTHER -> c

\* str::to_lowercase
to_lowercase(line) == [k \in DOMAIN line |-> LowerChar(line[k])]

\* str::lines: the text split at "\n"; a final newline ends the last line.
RECURSIVE LinesFrom(_, _)
LinesFrom(text, cur) ==
    IF text = <<>> THEN (IF cur = <<>> THEN <<>> ELSE <<cur>>)
    ELSE IF Head(text) = "\n" THEN <<cur>> \o LinesFrom(Tail(text), <<>>)
    ELSE LinesFrom(Tail(text), Append(cur, Head(text)))

lines(text) == LinesFrom(text, <<>>)

\* str::find: the position (from 1) of the first occurrence of pat, 0 for None.
find(s, pat) ==
    LET hits == {p \in 1..Len(s) :
                    /\ p + Len(pat) - 1 <= Len(s)
                    /\ SubSeq(s, p, p + Len(pat) - 1) = pat}
    IN  IF hits = {} THEN 0 ELSE CHOOSE p \in hits : \A q \in hits : p <= q

TimeEq == <<"t", "i", "m", "e", "=">>
TimeLt == <<"t", "i", "m", "e", "<">>

\* after.chars().take_while(|c| c.is_ascii_digit() || *c == '.').collect()
RECURSIVE take_while_numeric(_)
take_while_numeric(s) ==
    IF s = <<>> THEN <<>>
    ELSE IF IsDigit(Head(s)) \/ Head(s) = "." THEN <<Head(s)>> \o take_while_numeric(Tail(s))
    ELSE <<>>

RECURSIVE DecimalValue(_)
DecimalValue(ds) ==
    IF ds = <<>> THEN 0 ELSE 10 * DecimalValue(SubSeq(ds, 1, Len(ds) - 1)) + DigitVal(ds[Len(ds)])

\* num_str.parse::<f64>() on a text of digits and dots: an error unless there
\* is a digit and at most one dot; else the integer part and the fraction digits.
parse_f64(num_str) ==
    LET dots == {k \in DOMAIN num_str : num_str[k] = "."}
    IN  IF Cardinality(dots) > 1 \/ Cardinality(dots) = Len(num_str)
        THEN [ok |-> FALSE, int |-> 0, frac |-> <<>>]
        ELSE IF dots = {}
        THEN [ok |-> TRUE, int |-> DecimalValue(num_str), frac |-> <<>>]
        ELSE LET d == CHOOSE k \in dots : TRUE
             IN  [ok |-> TRUE,
                  int |-> DecimalValue(SubSeq(num_str, 1, d - 1)),
                  frac |-> SubSeq(num_str, d + 1, Len(num_str))]

\* f64::round (half away from zero) followed by `as u64`.
round(val) == val.int + (IF val.frac # <<>> /\ DigitVal(val.frac[1]) >= 5 THEN 1 ELSE 0)

\* A variant of the clamp that lets the rounded value through.
unclamped(n) == n

\* f64::max(1.0) on a rounded value.
max1(n) == IF n >= 1 THEN n ELSE 1

\* Option<u64>
None == [some |-> FALSE, val |-> 0]
Some(n) == [some |-> TRUE, val |-> n]
unwrap_or(opt, default) == IF opt.some THEN opt.val ELSE default

\* The `for line in output.lines()` loop of parse_ping_latency over the lines
\* still to scan.
RECURSIVE ScanLines(_)
ScanLines(ls) ==
    IF ls = <<>> THEN None
    ELSE LET lower == to_lowercase(Head(ls))
             pe == find(lower, TimeEq)
             pl == find(lower, TimeLt)
         IN  IF pe > 0
             THEN LET val == parse_f64(take_while_numeric(SubSeq(lower, pe + 5, Len(lower))))
                  IN  IF val.ok THEN Some(round(val)) ELSE ScanLines(Tail(ls))
             ELSE IF pl > 0
             THEN LET val == parse_f64(take_while_numeric(SubSeq(lower, pl + 5, Len(lower))))
                  IN  IF val.ok THEN Some(max1(round(val))) ELSE Some(1)
             ELSE ScanLines(Tail(ls))

parse_ping_latency(output) == ScanLines(lines(output))

\* ------------------------------------------------------------------ probes

\* The timeout the probe loop and probe_target give tcp_probe, in milliseconds.
ConnectTimeoutMs == 2000

\* SystemTime::now().duration_since(UNIX_EPOCH).unwrap() panics the unit when
\* the system clock is set before the epoch.
Panics(env) == env.clock = "before_epoch"

\* A variant of tcp_probe that goes on to the next address when a connection
\* fails.
RECURSIVE ConnectInTurn(_, _, _)
ConnectInTurn(addrs, timeout_ms, env) ==
    IF addrs = <<>> THEN [ok |-> FALSE, calls |-> <<>>]
    ELSE LET connect == [op |-> "connect", arg |-> <<Head(addrs), timeout_ms>>]
         IN  IF Head(addrs) \in env.accepting
             THEN [ok |-> TRUE, calls |-> <<connect>>]
             ELSE LET rest == ConnectInTurn(Tail(addrs), timeout_ms, env)
                  IN  [ok |-> rest.ok, calls |-> <<connect>> \o rest.calls]

tcp_run_fallback(host, port, timeout_ms, env) ==
    LET resolution == [op |-> "resolve", arg |-> <<host, port>>]
        tried == ConnectInTurn(env.addrs, timeout_ms, env)
    IN  IF env.resolve = "err"
        THEN [result |-> ProbeResult("", FALSE, env.took, "dns_error: cause", env.now),
              calls |-> <<resolution>>]
        ELSE IF env.addrs = <<>>
        THEN [result |-> ProbeResult("", FALSE, env.took, "dns_failed", env.now),
              calls |-> <<resolution>>]
        ELSE [result |-> ProbeResult("", tried.ok, env.took,
                                     IF tried.ok THEN NoError ELSE "os error", env.now),
              calls |-> <<resolution>> \o tried.calls]

\* tcp_probe with the network calls it makes: one to_socket_addrs, then
\* connect_timeout to the first address; every branch returns.
tcp_run(host, port, timeout_ms, env) ==
    LET addr == <<host, port>>
        timestamp == env.now
        resolution == [op |-> "resolve", arg |-> addr]
    IN  IF env.resolve = "err"
        THEN [result |-> ProbeResult("", FALSE, env.took, "dns_error: cause", timestamp),
              calls |-> <<resolution>>]
        ELSE IF env.addrs = <<>>
        THEN [result |-> ProbeResult("", FALSE, env.took, "dns_failed", timestamp),
              calls |-> <<resolution>>]
        ELSE LET resolved == Head(env.addrs)
                 connect == [op |-> "connect", arg |-> <<resolved, timeout_ms>>]
             IN  IF resolved \in env.accepting
                 THEN [result |-> ProbeResult("", TRUE, env.took, NoError, timestamp),
                       calls |-> <<resolution, connect>>]
                 ELSE [result |-> ProbeResult("", FALSE, env.took, "os error", timestamp),
                       calls |-> <<resolution, connect>>]

\* tcp_probe: the ProbeResult of the run; id is String::new().
tcp_probe(host, port, timeout_ms, env) == tcp_run(host, port, timeout_ms, env).result

\* icmp_ping: run the ping utility once and classify its exit.
icmp_ping(host, env) ==
    LET timestamp == env.now
        elapsed == env.took
    IN  IF env.spawn = "err"
        THEN ProbeResult("", FALSE, elapsed, "ping_unavailable: cause", timestamp)
        ELSE IF env.exit = "success"
        THEN LET stdout == from_utf8_lossy(env.stdout)
                 latency == unwrap_or(parse_ping_latency(stdout), elapsed)
             IN  ProbeResult("", TRUE, latency, NoError, timestamp)
        ELSE ProbeResult("", FALSE, elapsed, "ping_failed: stderr", timestamp)

\* The dispatch on probe_type shared by the loop's closure and probe_target.
Execute(probe_type, host, port, env) ==
    IF probe_type = "ping"
    THEN icmp_ping(host, env)
    ELSE tcp_probe(host, port, ConnectTimeoutMs, env)

\* Body of the closure given to spawn_blocking by the probe loop.
ProbeUnitBody(t, env) ==
    LET result == Execute(t.probe_type, t.host, t.port, env)
    IN  [result EXCEPT !.id = t.id]

\* ------------------------------------------------------------------ named environments

\* The pieces the ping utility writes its lines from.
Ttl == <<"t", "t", "l", "=", "6", "4", " ">>
Ms == <<"m", "s">>
SpaceMs == <<" ", "m", "s">>
N12p3 == Number(<<"1", "2", ".", "3">>, TRUE, 12)

\* A reply line of the ping utility: "ttl=64 time=12.3 ms".
ReplyLine == Line(Ttl, "eq", TimeEq, N12p3, SpaceMs)

\* What the network / operating system answers to one tcp_probe.
TcpEnv == {"dns_empty", "dns_error", "connect_ok", "connect_err", "clock_panic"}

\* What the operating system answers to one icmp_ping.
PingEnv == {"spawn_err", "exit_fail", "exit_ok", "clock_panic"}

\* The environment each name stands for: the clock reads 1 ms after the epoch
\* and the probe takes 1 ms unless the name says otherwise.
World(name) ==
    LET usual == Env("ok", 1, 1, "ok", <<A1>>, {A1}, "ok", "success", <<ReplyLine>>)
    IN  CASE name = "dns_empty"   -> [usual EXCEPT !.addrs = <<>>]
          [] name = "dns_error"   -> [usual EXCEPT !.resolve = "err"]
          [] name = "connect_ok"  -> usual
          [] name = "connect_err" -> [usual EXCEPT !.accepting = {}]
          [] name = "spawn_err"   -> [usual EXCEPT !.spawn = "err"]
          [] name = "exit_fail"   -> [usual EXCEPT !.exit = "failure"]
          [] name = "exit_ok"     -> usual
          [] name = "clock_panic" -> [usual EXCEPT !.clock = "before_epoch"]

\* The environments the executor chosen for probe_type can meet.
EnvFor(probe_type) == IF probe_type = "ping" THEN PingEnv ELSE TcpEnv

\* A ProbeResult slot nothing has been written to yet.
NoResult == ProbeResult("", FALSE, 0, NoError, 0)

\* Option<String> arguments.
NoneStr == [some |-> FALSE, val |-> ""]
SomeStr(x) == [some |-> TRUE, val |-> x]

\* No probe_target call is in progress.
NoArgs == [host |-> "", port |-> 0, pt |-> ""]
NoTask == [st |-> "none", result |-> NoResult, env |-> World("connect_ok"),
           ran |-> <<>>, calls |-> <<>>]

\* ------------------------------------------------------------------ state

Sched == "sched"
Readers == {"r1"}
Writers == {"w1"}
NoWriter == "nobody"

VARIABLES
    targets,      \* AppState.targets: the Vec<Target> inside the RwLock
    lockReaders,  \* processes holding a read guard of the RwLock
    lockWriter,   \* the process holding the write guard, or NoWriter
    gpc,          \* get_targets calls: "idle" or "clone"
    gbuf,         \* get_targets calls: the clone built so far
    wpc,          \* set_targets calls: "idle", "wait" (in write()) or "locked"
    spc,          \* probe loop: "waiting", "read", "clone", "spawn", "collect"
    snap,         \* probe loop: `targets`, the clone taken this tick
    units,        \* spawn_blocking tasks of the batch, in spawn order
    next,         \* probe loop: handles already awaited by the for loop
    sink,         \* app.emit calls of the batch, in call order
    passed,       \* ticker: period deadlines passed and not yet consumed
    ended,        \* history: units ended and not yet awaited, in the order they ended
    overtook,     \* history: an event of the batch was forwarded before that of a unit ended earlier
    during,       \* history: registry values held during a running clone
    lastSet,      \* history: argument of the last set_targets that returned
    setDone,      \* history: some set_targets has returned
    fresh,        \* history: a deadline passed since tick() last returned
    tickFresh,    \* history: tick() last returned on a fresh deadline
    missed,       \* history: deadlines dropped by the tick() that just returned
    late,         \* history: deadlines that had passed when the last batch was done
    atTick,       \* history: the registry when the loop took its read guard this tick
    ppc,          \* probe_target call: "idle", "spawned", "ended", "returned", "failed"
    pargs,        \* probe_target call: host, port and the probe type it dispatches on
    ptask,        \* probe_target call: its spawn_blocking task
    pret          \* probe_target call: the ProbeResult returned to the caller

vars == <<targets, lockReaders, lockWriter, gpc, gbuf, wpc, spc, snap,
          units, next, sink, passed, ended, overtook, during, lastSet, setDone,
          fresh, tickFresh, missed, late, atTick, ppc, pargs, ptask, pret>>

regVars == <<targets, lockReaders, lockWriter>>
getVars == <<gpc, gbuf>>
setVars == <<wpc, lastSet, setDone>>
batchVars == <<units, next, sink, ended, overtook>>
tickVars == <<passed, fresh, tickFresh, missed, late>>
adhocVars == <<ppc, pargs, ptask, pret>>

\* The state in which the registry holds S, no command runs and the loop is
\* at its first tick().await; the first tick of tokio's interval completes
\* immediately.
InitWith(S) ==
    /\ targets = S
    /\ lockReaders = {}
    /\ lockWriter = NoWriter
    /\ gpc = [r \in Readers |-> "idle"]
    /\ gbuf = [r \in Readers |-> <<>>]
    /\ wpc = [w \in Writers |-> "idle"]
    /\ spc = "waiting"
    /\ snap = <<>>
    /\ units = <<>>
    /\ next = 0
    /\ sink = <<>>
    /\ passed = 1
    /\ ended = <<>>
    /\ overtook = FALSE
    /\ during = [p \in Readers \cup {Sched} |-> {}]
    /\ lastSet = S
    /\ setDone = (S # <<>>)
    /\ fresh = TRUE
    /\ tickFresh = TRUE
    /\ missed = 0
    /\ late = 0
    /\ atTick = <<>>
    /\ ppc = "idle"
    /\ pargs = NoArgs
    /\ ptask = NoTask
    /\ pret = NoResult

\* run(): AppState::default() is an empty registry.
Init == InitWith(<<>>)

\* ------------------------------------------------------------------ RwLock

\* RwLock::read() returns once no write guard is out.
CanRead == lockWriter = NoWriter

\* A variant of RwLock::write() that does not wait for the read guards.
CanWriteIgnoringReaders == lockWriter = NoWriter

\* RwLock::write() returns once no guard at all is out.
CanWrite == lockWriter = NoWriter /\ lockReaders = {}

\* Vec::clone copies the elements one after the other; one step copies one.
CloneStep(buf, reg) ==
    IF Len(buf) < Len(reg) THEN Append(buf, reg[Len(buf) + 1]) ELSE buf

\* The clone has reached the end of the vector it copies.
CloneDone(buf, reg) == Len(buf) >= Len(reg)

\* A variant of the assignment that keeps the old list when the new one is empty.
StoreUnlessEmpty(old, new) == IF new = <<>> THEN old ELSE new

\* A variant of the read that moves the vector out of the lock (mem::take).
Taken(reg) == <<>>

\* `.clone()` through a read guard borrows the vector: the stored vector
\* after the read is the one before it.
Borrowed(reg) == reg

\* `*t = targets`: the stored vector is replaced by the argument.
Store(old, new) == new

\* ------------------------------------------------------------------ get_targets

\* state.targets.read().unwrap(): the read guard is taken.
GetLock(r) ==
    /\ gpc[r] = "idle"
    /\ CanRead
    /\ lockReaders' = lockReaders \cup {r}
    /\ gpc' = [gpc EXCEPT ![r] = "clone"]
    /\ gbuf' = [gbuf EXCEPT ![r] = <<>>]
    /\ during' = [during EXCEPT ![r] = {targets}]
    /\ UNCHANGED <<adhocVars, atTick, targets, lockWriter, setVars, spc, snap, batchVars, tickVars>>

\* .clone(), one element further.
GetClone(r) ==
    /\ gpc[r] = "clone"
    /\ ~CloneDone(gbuf[r], targets)
    /\ gbuf' = [gbuf EXCEPT ![r] = CloneStep(gbuf[r], targets)]
    /\ UNCHANGED <<adhocVars, atTick, regVars, gpc, setVars, spc, snap, batchVars, tickVars, during>>

\* The clone is returned and the temporary read guard dropped.
GetReturn(r) ==
    /\ gpc[r] = "clone"
    /\ CloneDone(gbuf[r], targets)
    /\ lockReaders' = lockReaders \ {r}
    /\ gpc' = [gpc EXCEPT ![r] = "idle"]
    /\ gbuf' = [gbuf EXCEPT ![r] = <<>>]
    /\ during' = [during EXCEPT ![r] = {}]
    /\ targets' = Borrowed(targets)
    /\ UNCHANGED <<adhocVars, atTick, lockWriter, setVars, spc, snap, batchVars, tickVars>>

\* ------------------------------------------------------------------ set_targets

\* set_targets is invoked; it is about to ask for the write guard.
SetCall(w) ==
    /\ wpc[w] = "idle"
    /\ wpc' = [wpc EXCEPT ![w] = "wait"]
    /\ UNCHANGED <<adhocVars, atTick, regVars, getVars, lastSet, setDone, spc, snap, batchVars,
                   tickVars, during>>

\* state.targets.write().unwrap() returns the write guard.
SetLock(w) ==
    /\ wpc[w] = "wait"
    /\ CanWrite
    /\ lockWriter' = w
    /\ wpc' = [wpc EXCEPT ![w] = "locked"]
    /\ UNCHANGED <<adhocVars, atTick, targets, lockReaders, getVars, lastSet, setDone, spc, snap,
                   batchVars, tickVars, during>>

\* `*t = targets`, then the guard is dropped and the command returns. S is the
\* argument of the call: nothing reads it before this assignment.
SetStore(w, S) ==
    /\ wpc[w] = "locked"
    /\ targets' = Store(targets, S)
    /\ lockWriter' = NoWriter
    /\ wpc' = [wpc EXCEPT ![w] = "idle"]
    /\ lastSet' = S
    /\ setDone' = TRUE
    /\ during' = [p \in DOMAIN during |->
                    IF p \in lockReaders THEN during[p] \cup {targets'}
                    ELSE during[p]]
    /\ UNCHANGED <<adhocVars, atTick, lockReaders, getVars, spc, snap, batchVars, tickVars>>

\* set_targets as one step: the guard is taken, the vector replaced, the guard
\* dropped; between the two steps above the call does nothing else.
SetTargets(w, S) ==
    /\ wpc[w] = "idle"
    /\ CanWrite
    /\ targets' = Store(targets, S)
    /\ lastSet' = S
    /\ setDone' = TRUE
    /\ UNCHANGED <<adhocVars, atTick, lockReaders, lockWriter, wpc, getVars, spc, snap, batchVars,
                   tickVars, during>>

\* ------------------------------------------------------------------ probe loop

\* A variant of the ticker that queues every missed tick (MissedTickBehavior::Burst).
NextPendingBurst(p) == p - 1

\* MissedTickBehavior::Skip: tick() returns once for all the deadlines that
\* have passed; the next deadline lies in the future.
NextPending(p) == 0

\* The period (5 s) ends once more; tick() has not consumed the deadline yet.
PeriodElapses ==
    /\ passed < MaxPassed
    /\ passed' = passed + 1
    /\ fresh' = TRUE
    /\ UNCHANGED <<adhocVars, atTick, regVars, getVars, setVars, spc, snap, batchVars, during, tickFresh,
                   missed, late>>

\* ticker.tick().await returns: a new iteration of the loop starts.
Tick ==
    /\ spc = "waiting"
    /\ passed >= 1
    /\ passed' = NextPending(passed)
    /\ tickFresh' = fresh
    /\ missed' = passed - 1 - passed'
    /\ fresh' = FALSE
    /\ spc' = "read"
    /\ units' = <<>>
    /\ next' = 0
    /\ sink' = <<>>
    /\ ended' = <<>>
    /\ overtook' = FALSE
    /\ UNCHANGED <<adhocVars, atTick, regVars, getVars, setVars, snap, during, late>>

\* state.targets.read().unwrap() of the loop.
SchedLock ==
    /\ spc = "read"
    /\ CanRead
    /\ lockReaders' = lockReaders \cup {Sched}
    /\ snap' = <<>>
    /\ spc' = "clone"
    /\ during' = [during EXCEPT ![Sched] = {targets}]
    /\ missed' = 0
    /\ late' = 0
    /\ atTick' = targets
    /\ UNCHANGED <<adhocVars, targets, lockWriter, getVars, setVars, batchVars, passed, fresh,
                   tickFresh>>

\* t.clone() of the loop, one element further.
SchedClone ==
    /\ spc = "clone"
    /\ ~CloneDone(snap, targets)
    /\ snap' = CloneStep(snap, targets)
    /\ UNCHANGED <<adhocVars, atTick, regVars, getVars, setVars, spc, batchVars, tickVars, during>>

\* A variant of the loop that keeps its read guard for the whole iteration.
GuardKept(held) == held

\* The block `{ let t = ...; t.clone() }` ends: the read guard is dropped.
GuardDrop(held) == held \ {Sched}

\* A variant of the emptiness test that never takes the `continue`.
AfterSnapshotNoContinue(s) == "spawn"

\* `if targets.is_empty() { continue; }`
AfterSnapshot(s) == IF s = <<>> THEN "waiting" ELSE "spawn"

\* End of the snapshot block and the emptiness test.
SchedUnlock ==
    /\ spc = "clone"
    /\ CloneDone(snap, targets)
    /\ lockReaders' = GuardDrop(lockReaders)
    /\ spc' = AfterSnapshot(snap)
    /\ during' = [during EXCEPT ![Sched] = {}]
    /\ targets' = Borrowed(targets)
    /\ UNCHANGED <<adhocVars, atTick, lockWriter, getVars, setVars, snap, batchVars, tickVars>>

\* A spawn_blocking task: the target data it owns, its state, its output.
Unit(t) == [target |-> t, st |-> "running", result |-> NoResult]

\* A variant of the loop that iterates over the registry itself.
LiveRegistry(s, reg) == reg

\* `targets.into_iter()`: the loop iterates over its own clone, the local
\* `targets`, and each closure owns clones of the fields of its element.
BatchSource(s, reg) == s

\* A variant of the loop that awaits each handle as soon as it is spawned.
AfterLaunchOneByOne(launched, total) == "collect"

\* `.map(..).collect()`: every element is spawned before the for loop over
\* the handles starts; nothing counts the tasks in flight.
AfterLaunch(launched, total) == IF launched >= total THEN "collect" ELSE "spawn"

\* One more element of targets.into_iter().map(spawn_blocking); after the
\* last one the `for handle in handles` loop starts.
Spawn ==
    /\ spc = "spawn"
    /\ LET batch == BatchSource(snap, targets)
       IN  /\ Len(units) < Len(batch)
           /\ units' = Append(units, Unit(batch[Len(units) + 1]))
           /\ spc' = AfterLaunch(Len(units'), Len(batch))
    /\ UNCHANGED <<adhocVars, atTick, regVars, getVars, setVars, snap, next, sink, ended, overtook,
                   tickVars, during>>

\* The blocking task i runs to its end: its closure returns a result, or panics.
ProbeFinish(i, env) ==
    /\ i \in DOMAIN units
    /\ units[i].st = "running"
    /\ env \in EnvFor(units[i].target.probe_type)
    /\ units' = [units EXCEPT ![i] =
                    IF Panics(World(env))
                    THEN [@ EXCEPT !.st = "panicked"]
                    ELSE [@ EXCEPT !.st = "finished",
                                   !.result = ProbeUnitBody(units[i].target, World(env))]]
    /\ ended' = Append(ended, i)
    /\ UNCHANGED <<adhocVars, atTick, regVars, getVars, setVars, spc, snap, next, sink, overtook,
                   tickVars, during>>

\* A variant of the loop that takes the handles in the order the units end.
HandleByCompletion(n) == IF ended # <<>> THEN Head(ended) ELSE 0

\* `for handle in handles`: the handle awaited after n others is handle n+1.
HandleToAwait(n) == n + 1

\* A variant of the loop that does not wait for a unit that is still running.
ReadyOrSkipped(u) == TRUE

\* handle.await returns once the task has ended.
Joined(u) == u.st # "running"

\* Result<()> of app.emit: delivered, or failed (for example no listener).
EmitOk == "Ok"
EmitErr == "Err"
EmitEnv == {EmitOk, EmitErr}

\* `if let Ok(result) = handle.await { let _ = app.emit("probe:update", &result); }`
\* the emit calls made for handle i: one with its result and the outcome em
\* of the call, or none for a JoinError.
Forwarded(i, u, em) ==
    IF u.st = "finished" THEN <<[unit |-> i, event |-> u.result, emit |-> em]>> ELSE <<>>

\* A variant that propagates the error of app.emit out of the loop task.
EmitPropagated(em) == IF em = EmitErr THEN "abort" ELSE "go_on"

\* `let _ = app.emit(..)`: the Result is dropped, whatever it is.
EmitDiscarded(em) == "go_on"

\* A variant of the loop that unwraps the JoinError and so ends the loop task.
AfterHandleUnwrap(u, n, total) ==
    IF u.st = "panicked" THEN "aborted"
    ELSE IF n >= total THEN "waiting" ELSE "collect"

\* After handle n of `total`: the next handle, or back to ticker.tick().await.
AfterHandle(u, n, total) == IF n >= total THEN "waiting" ELSE "collect"

\* The event of unit i is forwarded although a unit that ended before it has
\* a result that is not forwarded yet.
Overtakes(i) ==
    /\ units[i].st = "finished"
    /\ \E p, q \in DOMAIN ended :
          /\ p < q
          /\ ended[q] = i
          /\ units[ended[p]].st = "finished"

\* One iteration of `for handle in handles`; em is what app.emit returns if
\* it is called.
Collect(em) ==
    /\ spc = "collect"
    /\ next < Len(units)
    /\ LET i == HandleToAwait(next)
       IN  /\ i \in DOMAIN units
           /\ Joined(units[i])
           /\ sink' = sink \o Forwarded(i, units[i], em)
           /\ next' = next + 1
           /\ spc' = IF units[i].st = "finished" /\ EmitDiscarded(em) = "abort"
                     THEN "aborted"
                     ELSE AfterHandle(units[i], next + 1, Len(units))
           /\ ended' = SelectSeq(ended, LAMBDA j : j # i)
           /\ overtook' = (overtook \/ Overtakes(i))
           /\ late' = IF spc' = "waiting" THEN passed ELSE late
    /\ UNCHANGED <<adhocVars, atTick, regVars, getVars, setVars, snap, units, passed, fresh, tickFresh,
                   missed, during>>

\* ------------------------------------------------------------------ probe_target

\* Everything outside the probe_target call.
engineVars == <<regVars, getVars, setVars, spc, snap, batchVars, tickVars, during, atTick>>

\* The executor the dispatch on probe_type selects.
Executor(probe_type) == IF probe_type = "ping" THEN "icmp_ping" ELSE "tcp_probe"

\* The calls the selected executor makes outside the program.
Calls(probe_type, host, port, env) ==
    IF probe_type = "ping"
    THEN <<[op |-> "ping", arg |-> <<host>>]>>
    ELSE tcp_run(host, port, ConnectTimeoutMs, env).calls

\* A variant of the closure that writes the host into the id of its result.
ProbeTargetBodyTagged(args, env) ==
    [Execute(args.pt, args.host, args.port, env) EXCEPT !.id = args.host]

\* Body of the closure probe_target gives to spawn_blocking.
ProbeTargetBody(args, env) == Execute(args.pt, args.host, args.port, env)

\* probe_target is invoked: `pt` is computed and the blocking task spawned.
ProbeTargetCall(host, port, probe_type) ==
    /\ ppc \in {"idle", "returned"}
    /\ ppc' = "spawned"
    /\ pargs' = [host |-> host, port |-> port,
                 pt |-> IF probe_type.some THEN probe_type.val ELSE "tcp"]
    /\ ptask' = [NoTask EXCEPT !.st = "running"]
    /\ pret' = NoResult
    /\ UNCHANGED engineVars

\* The blocking task runs to its end in the environment env: the executor is
\* entered once and returns a result, or panics at its clock reading.
ProbeTargetRun(env) ==
    /\ ppc = "spawned"
    /\ ppc' = "ended"
    /\ ptask' = IF Panics(env)
                THEN [st |-> "panicked", result |-> NoResult, env |-> env,
                      ran |-> <<Executor(pargs.pt)>>, calls |-> <<>>]
                ELSE [st |-> "finished", result |-> ProbeTargetBody(pargs, env), env |-> env,
                      ran |-> <<Executor(pargs.pt)>>,
                      calls |-> Calls(pargs.pt, pargs.host, pargs.port, env)]
    /\ UNCHANGED <<engineVars, pargs, pret>>

\* A variant of the result for a JoinError that carries no error text.
TaskFailedBare == ProbeResult("", FALSE, 0, NoError, 0)

\* The result probe_target builds for a JoinError.
TaskFailed == ProbeResult("", FALSE, 0, "task_failed", 0)

\* A variant of the join that unwraps the JoinError: the command fails.
JoinUnwrap(task) ==
    IF task.st = "finished" THEN [pc |-> "returned", value |-> task.result]
    ELSE [pc |-> "failed", value |-> NoResult]

\* `.await.unwrap_or_else(|_| ProbeResult { .. "task_failed" .. })`
JoinOrElse(task) ==
    IF task.st = "finished" THEN [pc |-> "returned", value |-> task.result]
    ELSE [pc |-> "returned", value |-> TaskFailed]

\* The await of the task's handle completes and probe_target returns.
ProbeTargetReturn ==
    /\ ppc = "ended"
    /\ ppc' = JoinOrElse(ptask).pc
    /\ pret' = JoinOrElse(ptask).value
    /\ UNCHANGED <<engineVars, pargs, ptask>>

\* The arguments the callers of probe_target pass.
Hosts == {"h1", "h2"}
Ports == {80, 0}
ProbeTypeArgs == {NoneStr, SomeStr("tcp"), SomeStr("ping"), SomeStr("http")}

\* probe_target calls beside get_targets and set_targets calls that go step
\* by step through the registry's lock; every task that is spawned runs to
\* its end (connect_timeout and the ping utility both time out) and every
\* ended task is joined.
OnDemandNext ==
    \/ \E r \in Readers : GetLock(r)
    \/ \E r \in Readers : GetClone(r)
    \/ \E r \in Readers : GetReturn(r)
    \/ \E w \in Writers : SetCall(w)
    \/ \E w \in Writers : SetLock(w)
    \/ \E w \in Writers : \E S \in TargetLists : SetStore(w, S)
    \/ \E h \in Hosts : \E p \in Ports : \E t \in ProbeTypeArgs : ProbeTargetCall(h, p, t)
    \/ \E e \in TcpEnv \cup PingEnv : e \in EnvFor(pargs.pt) /\ ProbeTargetRun(World(e))
    \/ ProbeTargetReturn

OnDemandSpec ==
    /\ Init
    /\ [][OnDemandNext]_vars
    /\ WF_vars(\E e \in TcpEnv \cup PingEnv : e \in EnvFor(pargs.pt) /\ ProbeTargetRun(World(e)))
    /\ WF_vars(ProbeTargetReturn)

\* ------------------------------------------------------------------ specification

\* The probe outcomes drawn where set_targets runs beside the loop: for each
\* probe type a success and a failure that returns a ProbeResult, and the panic.
\* LoopSpec draws every outcome of TcpEnv and PingEnv.
BatchEnv == {"connect_ok", "connect_err", "exit_ok", "exit_fail", "clock_panic"}

\* The probe loop with its ticker and its blocking tasks, and set_targets
\* calls; every app.emit is delivered (LoopSpec draws the failures too).
Next ==
    \/ \E w \in Writers : \E S \in TargetLists : SetTargets(w, S)
    \/ PeriodElapses
    \/ Tick
    \/ SchedLock
    \/ SchedClone
    \/ SchedUnlock
    \/ Spawn
    \/ \E i \in 1..MaxTargets : \E env \in BatchEnv : ProbeFinish(i, env)
    \/ Collect(EmitOk)

Spec == Init /\ [][Next]_vars

\* The probe outcomes drawn where the registry's lock is studied: a result
\* for a tcp target, a failure for a ping target, a panic for either.
RegistryEnv == {"connect_ok", "exit_fail", "clock_panic"}

\* The registry under concurrent get_targets and set_targets calls, step by
\* step through the lock, beside the probe loop.
RegistryNext ==
    \/ \E r \in Readers : GetLock(r)
    \/ \E r \in Readers : GetClone(r)
    \/ \E r \in Readers : GetReturn(r)
    \/ \E w \in Writers : SetCall(w)
    \/ \E w \in Writers : SetLock(w)
    \/ \E w \in Writers : \E S \in TargetLists : SetStore(w, S)
    \/ PeriodElapses
    \/ Tick
    \/ SchedLock
    \/ SchedClone
    \/ SchedUnlock
    \/ Spawn
    \/ \E i \in 1..MaxTargets : \E env \in RegistryEnv : ProbeFinish(i, env)
    \/ Collect(EmitOk)

RegistrySpec == Init /\ [][RegistryNext]_vars

\* The probe loop alone, from the moment the front end has stored its list
\* (one set_targets call before the first tick) and with no later
\* configuration write: time passes, the loop takes every step it can take,
\* and every probe ends.
LoopInit == \E S \in TargetLists : InitWith(S)

LoopNext ==
    \/ PeriodElapses
    \/ Tick
    \/ SchedLock
    \/ SchedClone
    \/ SchedUnlock
    \/ Spawn
    \/ \E i \in 1..MaxTargets : \E env \in TcpEnv \cup PingEnv : ProbeFinish(i, env)
    \/ \E em \in EmitEnv : Collect(em)

LoopSpec ==
    /\ LoopInit
    /\ [][LoopNext]_vars
    /\ WF_vars(PeriodElapses)
    /\ WF_vars(Tick)
    /\ WF_vars(SchedLock)
    /\ WF_vars(SchedClone)
    /\ WF_vars(SchedUnlock)
    /\ WF_vars(Spawn)
    /\ WF_vars(\E em \in EmitEnv : Collect(em))
    /\ \A i \in 1..MaxTargets : WF_vars(\E env \in TcpEnv \cup PingEnv : ProbeFinish(i, env))

\* The engine during one period: the loop's tick over the list the front end
\* stored, with every outcome of both executors, beside probe_target calls
\* for one host and port and every probe type (OnDemandSpec draws the others).
ResultNext ==
    \/ Tick
    \/ SchedLock
    \/ SchedClone
    \/ SchedUnlock
    \/ Spawn
    \/ \E i \in 1..MaxTargets : \E env \in TcpEnv \cup PingEnv : ProbeFinish(i, env)
    \/ Collect(EmitOk)
    \/ \E t \in ProbeTypeArgs : ProbeTargetCall(T1.host, T1.port, t)
    \/ \E e \in TcpEnv \cup PingEnv : e \in EnvFor(pargs.pt) /\ ProbeTargetRun(World(e))
    \/ ProbeTargetReturn

ResultSpec == LoopInit /\ [][ResultNext]_vars

\* ------------------------------------------------------------------ the executors on their inputs

\* The resolutions a tcp_probe can meet.
AddrLists == SeqsUpTo({A1, A2}, MaxAddrs)

\* The environments of a tcp_probe: the clock before or after the epoch, the
\* probe taking 0 or 3 ms, the resolution failing or returning any list of
\* addresses, any set of the addresses accepting connections.
TcpWorlds ==
    {Env(c, 1, k, r, as, acc, "ok", "success", <<>>) :
        c \in {"ok", "before_epoch"}, k \in {0, 3}, r \in {"ok", "err"},
        as \in AddrLists, acc \in SUBSET {A1, A2}}

\* Numbers the ping utility prints after its time token, or what it prints
\* in their place.
N0p4 == Number(<<"0", ".", "4">>, TRUE, 0)
N12p5 == Number(<<"1", "2", ".", "5">>, TRUE, 13)
N1 == Number(<<"1">>, TRUE, 1)
NoNumber == Number(<<>>, FALSE, 0)
TwoDots == Number(<<"1", ".", "2", ".", "3">>, FALSE, 0)

\* The time tokens in other cases.
TimeEqUpper == <<"T", "I", "M", "E", "=">>
TimeLtMixed == <<"T", "i", "m", "e", "<">>

\* The lines the ping utility prints: a reply with "time=" or "time<" in
\* either case, followed by a number or not, or a line with no time token.
PingLines ==
    {Line(Ttl, "eq", TimeEq, n, SpaceMs) : n \in {N12p3, N0p4, N12p5, NoNumber, TwoDots}}
    \cup {Line(Ttl, "eq", TimeEqUpper, N12p3, SpaceMs)}
    \cup {Line(Ttl, "lt", TimeLt, n, Ms) : n \in {N1, N0p4, NoNumber}}
    \cup {Line(Ttl, "lt", TimeLtMixed, n, Ms) : n \in {N12p5, NoNumber}}
    \cup {Line(Ttl, "none", <<>>, NoNumber, <<>>)}

PingOutputs == SeqsUpTo(PingLines, MaxLines)

\* The environments of an icmp_ping: the utility cannot be launched, or it
\* exits with success or failure after printing any output; the probe takes
\* 7 ms.
PingWorlds ==
    {Env("ok", 1, 7, "ok", <<>>, {}, "ok", ex, out) :
        ex \in {"success", "failure"}, out \in PingOutputs}
    \cup {Env("ok", 1, 7, "ok", <<>>, {}, "err", "failure", <<>>)}

WorldsFor(probe_type) == IF probe_type = "ping" THEN PingWorlds ELSE TcpWorlds

\* probe_target calls whose task meets any environment of its executor.
ExecutorNext ==
    \/ \E h \in Hosts : \E p \in Ports : \E t \in ProbeTypeArgs : ProbeTargetCall(h, p, t)
    \/ \E e \in WorldsFor(pargs.pt) : ProbeTargetRun(e)
    \/ ProbeTargetReturn

ExecutorSpec == Init /\ [][ExecutorNext]_vars

\* ------------------------------------------------------------------ claims

\* The loop is back at ticker.tick().await after a batch it launched.
BatchDone == spc = "waiting" /\ units # <<>>

\* The events of the batch that come from unit i.
EventsOf(i) == {k \in DOMAIN sink : sink[k].unit = i}

\* The units a probe of which is still running.
Running == {i \in DOMAIN units : units[i].st = "running"}

\* C1: when a batch over a snapshot of N >= 1 targets is done, the sink has
\* received exactly N events, one per target of the snapshot, each carrying
\* the id of its target, whatever the probes' outcomes and completion order.
C1_OneEventPerTarget ==
    BatchDone =>
        /\ Len(sink) = Len(snap)
        /\ \A i \in DOMAIN snap : Cardinality(EventsOf(i)) = 1
        /\ \A k \in DOMAIN sink : sink[k].event.id = snap[sink[k].unit].id

\* C2: a unit that panicked surfaces, once its handle has been awaited, as an
\* event with ok = false and error = "task_failed" carrying its target's id,
\* and every other awaited unit of the batch has its own result forwarded.
C2_PanicSurfacesAsTaskFailed ==
    \A i \in DOMAIN units :
        i <= next =>
            /\ units[i].st = "panicked" =>
                 \E k \in EventsOf(i) :
                     /\ sink[k].event.id = snap[i].id
                     /\ ~sink[k].event.ok
                     /\ sink[k].event.error = "task_failed"
            /\ units[i].st = "finished" =>
                 \E k \in EventsOf(i) : sink[k].event = units[i].result

\* C3 as stated: events reach the sink in the order the probes complete; no
\* event is forwarded while the result of a unit that ended earlier waits.
C3_CompletionOrder == ~overtook

\* C3 as amended: within a batch the events reach the sink in the order the
\* targets were submitted (the order of the snapshot), whatever the order in
\* which the probes complete.
C3_SubmissionOrder ==
    \A k, l \in DOMAIN sink : k < l => sink[k].unit < sink[l].unit

\* C3 witness: a later-listed unit ended first, and both events were forwarded.
C3_Witness == overtook /\ Len(sink) >= 2

\* C4: a completed clone of the registry, by get_targets or by the loop, is a
\* sequence the registry held as a whole at some moment of the read: never a
\* mixture of elements of an old and of a new sequence.
C4_SnapshotAtomic ==
    /\ \A r \in Readers :
          (gpc[r] = "clone" /\ CloneDone(gbuf[r], targets)) => gbuf[r] \in during[r]
    /\ (spc = "clone" /\ CloneDone(snap, targets)) => snap \in during[Sched]

\* C4 witness: a get_targets call has cloned a two-element list while a
\* set_targets call waits in write() and the loop holds a read guard too.
C4_Witness ==
    \E r \in Readers : \E w \in Writers :
        /\ gpc[r] = "clone" /\ Len(gbuf[r]) = 2 /\ CloneDone(gbuf[r], targets)
        /\ gbuf[r][1] # gbuf[r][2]
        /\ wpc[w] = "wait"
        /\ spc = "clone"

\* C5: once a set_targets(S) has returned and no later one has stored, the
\* value get_targets returns is exactly S: same elements, same order,
\* duplicates kept, nothing filtered.
C5_ReadReturnsLastWrite ==
    \A r \in Readers :
        (setDone /\ gpc[r] = "clone" /\ CloneDone(gbuf[r], targets)) => gbuf[r] = lastSet

\* C5 witness: get_targets returns a list holding the same target twice, as
\* it was set.
C5_Witness ==
    \E r \in Readers :
        /\ setDone /\ gpc[r] = "clone" /\ CloneDone(gbuf[r], targets)
        /\ Len(lastSet) = 2 /\ lastSet[1] = lastSet[2]

\* C6: batches never overlap and missed ticks do not queue: when the loop is
\* at tick().await or reads the registry, no probe of the previous batch runs
\* and every handle has been awaited; and tick() returns only on a deadline
\* passed since it last returned, so the deadlines missed during a long batch
\* start one iteration, not one each.
C6_NoOverlapNoBurst ==
    /\ tickFresh
    /\ spc \in {"waiting", "read", "clone"} => (Running = {} /\ next = Len(units))

\* C6 witness: tick() has just returned once although two deadlines had passed
\* while the previous batch was in progress.
C6_Witness == spc = "read" /\ missed >= 1 /\ late >= 2

\* C7 as stated: a tick that falls due while a probe is in flight does not
\* find the loop held at that probe's handle.
C7_TickDoesNotWaitForStragglers ==
    ~(/\ passed >= 1
      /\ spc = "collect"
      /\ next < Len(units)
      /\ units[next + 1].st = "running")

\* C7 as amended: a later tick waits for the stragglers: while a probe of the
\* batch is in flight the loop is still in that batch's iteration and the
\* probe's handle is still to be awaited, so no snapshot is taken and no new
\* batch is launched before every probe has ended and been awaited.
C7_TickWaitsForStragglers ==
    \A i \in Running : spc \in {"spawn", "collect"} /\ i > next

\* C7 witness: deadlines have passed while the loop awaits the handle of a
\* running probe and a later unit has already ended.
C7_Witness ==
    /\ passed = MaxPassed
    /\ spc = "collect"
    /\ next < Len(units)
    /\ units[next + 1].st = "running"
    /\ ended # <<>>

\* C8: a tick whose snapshot is empty launches no probe, emits no event, and
\* the loop is back at tick().await.
C8_EmptyTickNoOp ==
    (snap = <<>> /\ spc \notin {"read", "clone"}) =>
        (spc = "waiting" /\ units = <<>> /\ sink = <<>>)

\* C8 witness: a tick has been taken after a set_targets call and its
\* snapshot was empty.
C8_Witness == setDone /\ snap = <<>> /\ spc = "waiting" /\ passed = 0

\* C9: the loop holds no guard of the registry lock while a probe of its
\* batch runs or a result is forwarded, so a set_targets that waits in
\* write() then is held up by no probe and no delivery: with no get_targets
\* reading and no other writer, the write guard is free.
C9_LockNotHeldAcrossProbes ==
    (spc \in {"spawn", "collect"} \/ Running # {}) =>
        /\ Sched \notin lockReaders
        /\ \A w \in Writers :
              (wpc[w] = "wait" /\ lockReaders \cap Readers = {} /\ lockWriter = NoWriter)
                  => CanWrite

\* C9 witness: a set_targets call holds the write guard while a probe of the
\* batch runs.
C9_Witness ==
    /\ spc = "collect"
    /\ Running # {}
    /\ lockWriter \in Writers

\* C10: no probe outcome stops the loop: from a batch being collected the
\* loop gets back to tick().await, every probe ending, whatever the results,
\* failures and panics of the batch; and with a non-empty registry a later
\* tick launches a batch again.
C10_LoopSurvives ==
    /\ (spc = "collect") ~> (spc = "waiting")
    /\ (spc = "waiting" /\ targets # <<>>) ~> (spc = "spawn")

\* C10 witness: a batch is done in which one unit panicked and another
\* returned a failure.
C10_Witness ==
    /\ BatchDone
    /\ \E i \in DOMAIN units : units[i].st = "panicked"
    /\ \E i \in DOMAIN units : units[i].st = "finished" /\ ~units[i].result.ok

\* C11: a failed delivery to the sink is swallowed: no result is emitted twice
\* (no retry), every unit awaited after it that returned a result still has
\* its emit call, the batch is collected to its end, and a later tick starts
\* the next iteration of the loop.
C11_SinkFailureSwallowed ==
    /\ [](\A i \in DOMAIN units :
            /\ Cardinality(EventsOf(i)) <= 1
            /\ (i <= next /\ units[i].st = "finished") => EventsOf(i) # {})
    /\ (\E k \in DOMAIN sink : sink[k].emit = EmitErr)
          ~> (spc = "waiting" /\ next = Len(units))
    /\ (\E k \in DOMAIN sink : sink[k].emit = EmitErr) ~> (spc = "read")

\* C11 witness: a batch is done in which a delivery failed and the result of a
\* later handle was delivered after it.
C11_Witness ==
    /\ BatchDone
    /\ \E k, l \in DOMAIN sink :
          k < l /\ sink[k].emit = EmitErr /\ sink[l].emit = EmitOk

\* ------------------------------------------------------------------ unvalidated targets

\* A target whose probe_type is neither "tcp" nor "ping".
T3 == [id |-> "c", name |-> "api", host |-> "h3", port |-> 443, probe_type |-> "http"]

\* set_targets takes any Vec<Target>: the lists over every target record.
AnyLists == SeqsUpTo(TargetPool \cup {T3}, MaxTargets)

\* The probe loop beside set_targets calls that store lists of any targets.
AnyListNext ==
    \/ \E w \in Writers : \E S \in AnyLists : SetTargets(w, S)
    \/ PeriodElapses
    \/ Tick
    \/ SchedLock
    \/ SchedClone
    \/ SchedUnlock
    \/ Spawn
    \/ \E i \in 1..MaxTargets : \E env \in BatchEnv : ProbeFinish(i, env)
    \/ Collect(EmitOk)

AnyListSpec == Init /\ [][AnyListNext]_vars

\* The probe types the engine has an executor for.
KnownTypes == {"tcp", "ping"}

\* C12: whatever sequence set_targets was given is stored as it is, and the
\* result of a unit whose target has an unknown probe_type has ok = false.
C12_UnknownTypeFails ==
    /\ targets = lastSet
    /\ \A i \in DOMAIN units :
          (units[i].st = "finished" /\ units[i].target.probe_type \notin KnownTypes)
              => ~units[i].result.ok

\* C13: probe_target neither reads nor changes the registry: no step of a
\* call changes the stored list or takes or releases a guard of its lock, and
\* what its task returns is the executor's result for the arguments and the
\* environment alone, whatever the registry holds; the task enters exactly
\* one executor, the one its probe type selects; and the result returned to
\* the caller has an empty id.
C13_ProbeTargetFrame ==
    /\ [][(ppc' # ppc) => UNCHANGED regVars]_vars
    /\ [](ppc \in {"ended", "returned"} =>
            /\ ptask.ran = <<Executor(pargs.pt)>>
            /\ ptask.st = "finished" =>
                 ptask.result = Execute(pargs.pt, pargs.host, pargs.port, ptask.env))
    /\ [](ppc = "returned" => pret.id = "")

\* C13 witness: a ping probe_target call has returned a result while a
\* set_targets call holds the write guard of a non-empty registry.
C13_Witness ==
    /\ ppc = "returned"
    /\ ptask.st = "finished"
    /\ pargs.pt = "ping"
    /\ lockWriter \in Writers
    /\ targets # <<>>

\* The error of a ProbeResult is present exactly when ok is false.
ErrorIffNotOk(r) == (r.error # NoError) <=> ~r.ok

\* C14: every ProbeResult the engine produces has its error present if and
\* only if ok is false: the result of every unit of the loop, every event it
\* hands to the sink, the result of probe_target's task and the result
\* probe_target returns, on every path of tcp_probe and icmp_ping.
C14_ErrorIffNotOk ==
    /\ \A i \in DOMAIN units : units[i].st = "finished" => ErrorIffNotOk(units[i].result)
    /\ \A k \in DOMAIN sink : ErrorIffNotOk(sink[k].event)
    /\ ptask.st = "finished" => ErrorIffNotOk(ptask.result)
    /\ ppc = "returned" => ErrorIffNotOk(pret)

\* C14 witness: the loop has forwarded a success and a failure, and
\* probe_target has returned the result it builds for a failed task.
C14_Witness ==
    /\ \E k, l \in DOMAIN sink : sink[k].event.ok /\ ~sink[l].event.ok
    /\ ppc = "returned"
    /\ ptask.st = "panicked"

\* The calls of kind op among the calls c.
CallsOf(c, op) == {k \in DOMAIN c : c[k].op = op}

\* C15: a tcp_probe resolves exactly once and connects at most once, to the
\* first resolved address; an empty resolution gives ok = false, "dns_failed"
\* and no connection attempt; a resolution error gives ok = false,
\* "dns_error: <cause>" and no connection attempt; a connection that succeeds
\* gives ok = true and no error; one that fails gives ok = false and the OS
\* error text, even when a later address would accept.
C15_TcpProbeClassifies ==
    (ptask.st = "finished" /\ ptask.ran = <<"tcp_probe">>) =>
        LET e == ptask.env
            c == ptask.calls
            r == ptask.result
        IN  /\ Cardinality(CallsOf(c, "resolve")) = 1
            /\ Cardinality(CallsOf(c, "connect")) <= 1
            /\ \A k \in CallsOf(c, "connect") : c[k].arg[1] = Head(e.addrs)
            /\ (e.resolve = "ok" /\ e.addrs = <<>>) =>
                  (~r.ok /\ r.error = "dns_failed" /\ CallsOf(c, "connect") = {})
            /\ e.resolve = "err" =>
                  (~r.ok /\ r.error = "dns_error: cause" /\ CallsOf(c, "connect") = {})
            /\ (e.resolve = "ok" /\ e.addrs # <<>> /\ Head(e.addrs) \in e.accepting) =>
                  (r.ok /\ r.error = NoError /\ Cardinality(CallsOf(c, "connect")) = 1)
            /\ (e.resolve = "ok" /\ e.addrs # <<>> /\ Head(e.addrs) \notin e.accepting) =>
                  (~r.ok /\ r.error = "os error" /\ Cardinality(CallsOf(c, "connect")) = 1)

\* C15 witness: the resolution returned two addresses, the first refuses and
\* the second accepts, and the probe has returned.
C15_Witness ==
    /\ ppc = "returned"
    /\ ptask.st = "finished"
    /\ ptask.ran = <<"tcp_probe">>
    /\ ptask.env.resolve = "ok"
    /\ ptask.env.addrs = <<A1, A2>>
    /\ ptask.env.accepting = {A2}

\* The line of the output that decides the latency: the first with a
\* "time=" token followed by a number or with a "time<" token.
Decides(l) == (l.kind = "eq" /\ l.num.numeric) \/ l.kind = "lt"

\* C16: the latency of a successful ping is read from the first line, in
\* either case, that has a "time=" token followed by a number (that number
\* rounded to the nearest integer) or a "time<" token (the rounded number,
\* at least 1, and exactly 1 when no number follows); when no line has one,
\* it is the elapsed time the probe measured.
C16_PingLatency ==
    (ptask.st = "finished" /\ ptask.ran = <<"icmp_ping">>
        /\ ptask.env.spawn = "ok" /\ ptask.env.exit = "success") =>
        LET ls == ptask.env.stdout
            deciding == {k \in DOMAIN ls : Decides(ls[k])}
            first == CHOOSE k \in deciding : \A j \in deciding : k <= j
            n == ls[first].num
        IN  /\ ptask.result.ok
            /\ ptask.result.latency_ms =
                  IF deciding = {} THEN ptask.env.took
                  ELSE IF ls[first].kind = "eq" THEN n.rounded
                  ELSE IF ~n.numeric THEN 1
                  ELSE IF n.rounded >= 1 THEN n.rounded ELSE 1

\* C16 witness: the first line has "time=" followed by "1.2.3", the second
\* "time<0.4", and the ping has returned with latency 1.
C16_Witness ==
    /\ ppc = "returned"
    /\ ptask.st = "finished"
    /\ ptask.ran = <<"icmp_ping">>
    /\ ptask.env.exit = "success"
    /\ ptask.env.stdout = <<Line(Ttl, "eq", TimeEq, TwoDots, SpaceMs),
                            Line(Ttl, "lt", TimeLt, N0p4, Ms)>>
    /\ pret.latency_ms = 1

\* C17: a batch is fixed by the snapshot of its tick: whatever set_targets
\* stores while the batch is in flight, the units of the batch are, in order,
\* the targets the registry held when the loop read it, each unit owning
\* that target's id, host, port and probe type, the loop's clone stays that
\* list, and every id handed to the sink is the id of one of those targets;
\* and a snapshot is the list the registry holds then, the one the last
\* set_targets stored.
C17_BatchFixedBySnapshot ==
    /\ \A i \in DOMAIN units : i <= Len(atTick) /\ units[i].target = atTick[i]
    /\ \A k \in DOMAIN sink : \E i \in DOMAIN atTick : sink[k].event.id = atTick[i].id
    /\ spc \in {"spawn", "collect"} => snap = atTick
    /\ spc = "clone" => (atTick = targets /\ (setDone => atTick = lastSet))

\* C17 witness: while a probe of the batch runs and a result has been
\* forwarded, set_targets has stored a list that differs from the snapshot.
C17_Witness ==
    /\ spc = "collect"
    /\ Running # {}
    /\ sink # <<>>
    /\ targets # atTick
    /\ targets # <<>>

C19_ProbeTargetAlwaysReturns ==
    /\ [](ppc # "failed")
    /\ [](ppc = "returned" =>
            /\ ptask.st = "panicked" =>
                 (/\ ~pret.ok
                  /\ pret.error = "task_failed"
                  /\ pret.latency_ms = 0
                  /\ pret.timestamp = 0
                  /\ pret.id = "")
            /\ ptask.st = "finished" => pret = ptask.result)
    /\ (ppc = "spawned") ~> (ppc = "returned")

\* C19 witness: a call whose task panicked has returned.
C19_Witness ==
    /\ ppc = "returned"
    /\ ptask.st = "panicked"
    /\ pret.error = "task_failed"

\* C20: only set_targets changes the registry: a step that changes the
\* stored list is the store of a set_targets call, so a tick of the loop,
\* the end of a probe unit (a panic included), the forwarding of a result and
\* a get_targets call all leave it as it was, and the stored list is always
\* the one the last set_targets stored.
C20_OnlySetTargetsWrites ==
    /\ [][targets' # targets =>
            \E w \in Writers : wpc[w] = "locked" /\ wpc'[w] = "idle" /\ lastSet' = targets']_vars
    /\ [](targets = lastSet)

\* C20 witness: after a set_targets call, a batch with a panicked unit and a
\* forwarded result is done while a get_targets call has its clone, and the
\* registry still holds the list that was set.
C20_Witness ==
    /\ setDone
    /\ targets # <<>>
    /\ BatchDone
    /\ sink # <<>>
    /\ \E i \in DOMAIN units : units[i].st = "panicked"
    /\ \E r \in Readers : gpc[r] = "clone" /\ CloneDone(gbuf[r], targets)

====
